---- MODULE Spec2Model ----
(***************************************************************************)
(* Model of the podium-feature pipeline of f1-backend:                     *)
(*   scripts/train_podium_v1.py  (fetch_base, add_rolling_features,        *)
(*                                build_dataset)                           *)
(*   scripts/predict_podium.py    (ensure_race_and_stubs, fetch_all_up_to, *)
(*                                add_rolling_features, main)              *)
(* over the relational state declared in app/models/f1.py.                 *)
(*                                                                         *)
(* A dataframe is a sequence of rows; a row is a record whose field        *)
(* "index" is the pandas index label.  A nullable SQL value / a pandas     *)
(* NaN in a base column is the empty tuple, a present value v is <<v>>.    *)
(* A float of a derived column is an exact rational <<n, d>> in lowest     *)
(* terms with d > 0; NaN is <<0, 0>>.                                      *)
(***************************************************************************)
EXTENDS Integers, Sequences, FiniteSets, TLC

VARIABLES
    drivers,        \* drivers table joined to teams: driver id -> team id
    races,          \* races table: set of <<year, round>> (unique_races_year_round)
    race_results,   \* race_results table: set of result records
    fastf1,         \* the data provider: race -> the result fields a session may report
    pc,             \* position of the scripts: "seed", "trained", "predicted" or how a run ended
    input,          \* the dataframe fetch_base returned
    raw,            \* add_rolling_features' table just before the fill loop
    out,            \* the dataframe add_rolling_features returned
    train_df,       \* build_dataset's training rows
    args,           \* the <<season, round>> the scoring script was started with
    cur,            \* the rows the scoring script selected for the scorer
    request,        \* the last request sent to the API
    response,       \* what the client got for it
    verify          \* the verification step of the round seed_season handled last

vars == <<drivers, races, race_results, fastf1, pc, input, raw, out, train_df, args, cur,
          request, response, verify>>

\* ------------------------------------------------------------------ bounds
MaxRows == 4        \* result rows stored in the multi-driver scenario
MaxHistory == 8     \* rounds (and result rows) of the single-driver scenario
ExampleRounds == 5  \* rounds (and result rows) of the worked-example scenario
ApiRows == 3        \* result rows stored behind the API

\* ------------------------------------------------------------------ values
Null == << >>
Some(v) == <<v>>
IsNull(x) == x = Null

\* a missing value in a column of integer ids
NA == -1

NaN == <<0, 0>>
IsNaN(q) == q[2] = 0

RECURSIVE GCD(_, _)
GCD(a, b) == IF b = 0 THEN a ELSE GCD(b, a % b)

Abs(n) == IF n < 0 THEN -n ELSE n

\* n / d as a rational in lowest terms (d > 0)
Rat(n, d) == LET g == GCD(Abs(n), d) IN <<n \div g, d \div g>>
RatInt(n) == <<n, 1>>
RatLt(p, q) == p[1] * q[2] < q[1] * p[2]
RatAdd(p, q) == Rat(p[1] * q[2] + q[1] * p[2], p[2] * q[2])
RatDiv(p, k) == Rat(p[1], p[2] * k)

\* ------------------------------------------------------------------ tables
\* The stored fields a seeded result can carry: a win, a points finish off
\* the podium side of the grid, a retirement without grid slot or points.
StoredResults ==
    { [grid |-> Some(1), position |-> Some(1), status |-> Some("Finished"), points |-> Some(25)],
      [grid |-> Null,    position |-> Null,    status |-> Some("DNF"),      points |-> Null] }

\* points of the classified positions 1 .. 10
PointsTable == <<25, 18, 15, 12, 10, 8, 6, 4, 2, 1>>

\* a classified finish from grid slot and position p
Classified(p) ==
    [ grid |-> Some(p), position |-> Some(p), status |-> Some("Finished"),
      points |-> Some(IF p <= Len(PointsTable) THEN PointsTable[p] ELSE 0) ]

\* a classified finish at position p from grid slot g
Finish(g, p) == [Classified(p) EXCEPT !.grid = Some(g)]

\* a retirement reported without grid slot, position or points
Retired == [grid |-> Null, position |-> Null, status |-> Some("DNF"), points |-> Null]

\* race_results row for race rc and driver d (unique_race_driver)
HasResult(rc, d) == \E rr \in race_results : rr.race_id = rc /\ rr.driver_id = d


\* ------------------------------------------------------------------ sequences
\* a column or a frame built row by row, held as a finite list
AsList(f) == f \o << >>

RECURSIVE Flatten(_)
Flatten(ss) == IF ss = << >> THEN << >> ELSE Head(ss) \o Flatten(Tail(ss))

RECURSIVE SortedInts(_)
\* the elements of a finite set of integers, ascending
SortedInts(S) ==
    IF S = {} THEN << >>
    ELSE LET m == CHOOSE x \in S : \A y \in S : x <= y
         IN <<m>> \o SortedInts(S \ {m})

Col(df, c) == AsList([i \in 1..Len(df) |-> df[i][c]])

RECURSIVE RowLt(_, _, _)
\* lexicographic comparison of two rows on the columns by
RowLt(a, b, by) ==
    IF by = << >> THEN FALSE
    ELSE LET c == Head(by)
         IN IF a[c] < b[c] THEN TRUE
            ELSE IF a[c] > b[c] THEN FALSE
            ELSE RowLt(a, b, Tail(by))

RECURSIVE InsertRow(_, _, _)
\* x goes before the first row that is strictly greater: equal rows keep
\* the order in which they arrive
InsertRow(x, s, by) ==
    IF s = << >> THEN <<x>>
    ELSE IF RowLt(x, Head(s), by) THEN <<x>> \o s
    ELSE <<Head(s)>> \o InsertRow(x, Tail(s), by)

RECURSIVE SortValues(_, _)
\* DataFrame.sort_values on several columns: a stable lexicographic sort
SortValues(df, by) ==
    IF df = << >> THEN << >>
    ELSE InsertRow(df[Len(df)], SortValues(SubSeq(df, 1, Len(df) - 1), by), by)

\* ------------------------------------------------------------------ fetch_base
Coalesce(x, dflt) == IF IsNull(x) THEN dflt ELSE x[1]

\* the joined row with the grid column selected as stored
BaseRow_grid_as_stored(rr) ==
    [ race_id           |-> rr.race_id,
      season            |-> rr.race_id[1],
      race_round        |-> rr.race_id[2],
      driver_id         |-> rr.driver_id,
      constructor_id    |-> drivers[rr.driver_id],
      starting_position |-> IF IsNull(rr.grid) THEN NaN ELSE RatInt(rr.grid[1]),
      final_position    |-> rr.position,
      finish_status     |-> rr.status,
      race_points       |-> RatInt(Coalesce(rr.points, 0)) ]

\* one joined row of the base query
BaseRow(rr) ==
    [ race_id           |-> rr.race_id,
      season            |-> rr.race_id[1],
      race_round        |-> rr.race_id[2],
      driver_id         |-> rr.driver_id,
      constructor_id    |-> drivers[rr.driver_id],
      starting_position |-> RatInt(Coalesce(rr.grid, 20)),
      final_position    |-> rr.position,
      finish_status     |-> rr.status,
      race_points       |-> RatInt(Coalesce(rr.points, 0)) ]

RECURSIVE OrderBy(_, _)
\* ORDER BY on columns that identify a row: the rows of S ascending
OrderBy(S, by) ==
    IF S = {} THEN << >>
    ELSE LET m == CHOOSE x \in S : \A y \in S \ {x} : RowLt(x, y, by)
         IN <<m>> \o OrderBy(S \ {m}, by)

\* pd.read_sql: the rows get the index labels 0 .. n-1
RangeIndexed(rows) == AsList([i \in 1..Len(rows) |-> rows[i] @@ [index |-> i - 1]])

fetch_base ==
    LET joined == { BaseRow(rr) : rr \in { x \in race_results :
                        x.race_id \in races /\ x.driver_id \in DOMAIN drivers } }
    IN RangeIndexed(OrderBy(joined, <<"season", "race_round", "driver_id">>))

\* ------------------------------------------------------------------ rolling
\* Series.shift(1) of a numeric column
Shift(col) == AsList([i \in 1..Len(col) |-> IF i = 1 THEN NaN ELSE col[i - 1]])

\* Series.shift(1) of an object column
ShiftObject(col) == AsList([i \in 1..Len(col) |-> IF i = 1 THEN Null ELSE col[i - 1]])

\* Series.isin(values) of an object column: a missing entry is not a member
IsIn(col, values) ==
    AsList([i \in 1..Len(col) |->
        IF ~IsNull(col[i]) /\ col[i][1] \in values THEN RatInt(1) ELSE RatInt(0)])

RECURSIVE RatSum(_)
RatSum(qs) == IF qs = << >> THEN RatInt(0) ELSE RatAdd(Head(qs), RatSum(Tail(qs)))

\* the defined observations of the window of width w that ends at position i
Window(col, w, i) ==
    LET lo == IF i - w + 1 < 1 THEN 1 ELSE i - w + 1
    IN SelectSeq(SubSeq(col, lo, i), LAMBDA q : ~IsNaN(q))

\* Series.rolling(w, min_periods=1).sum()
RollingSum(col, w) ==
    AsList([i \in 1..Len(col) |->
        LET obs == Window(col, w, i)
        IN IF Len(obs) < 1 THEN NaN ELSE RatSum(obs)])

\* Series.rolling(w, min_periods=1).mean()
RollingMean(col, w) ==
    AsList([i \in 1..Len(col) |->
        LET obs == Window(col, w, i)
        IN IF Len(obs) < 1 THEN NaN ELSE RatDiv(RatSum(obs), Len(obs))])

\* every classified finish counted as a podium
is_podium_classified(df) ==
    AsList([i \in 1..Len(df) |->
        df[i] @@ [is_podium |-> IF ~IsNull(df[i].final_position) THEN 1 ELSE 0]])

\* df["final_position"].isin([1, 2, 3]).astype(int)
is_podium(df) ==
    AsList([i \in 1..Len(df) |->
        df[i] @@ [is_podium |->
            IF ~IsNull(df[i].final_position) /\ df[i].final_position[1] \in {1, 2, 3}
            THEN 1 ELSE 0]])

\* the window taken without shift(1): it ends at the current row
driver_points_last_5_unshifted(g) == RollingSum(Col(g, "race_points"), 5)

\* a window one row short
driver_points_last_5_short(g) == RollingSum(Shift(Col(g, "race_points")), 4)

driver_points_last_5(g) == RollingSum(Shift(Col(g, "race_points")), 5)

driver_podium_rate_last_5(g) ==
    RollingMean(Shift(AsList([i \in 1..Len(g) |-> RatInt(g[i].is_podium)])), 5)

dnf_rate_last_5(g) ==
    RollingMean(IsIn(ShiftObject(Col(g, "finish_status")), {"DNF", "DSQ", "DNS", "DNQ"}), 5)

\* the grid average taken over the window of the points sum
driver_grid_avg_last_3_window_5(g) == RollingMean(Shift(Col(g, "starting_position")), 5)

driver_grid_avg_last_3(g) == RollingMean(Shift(Col(g, "starting_position")), 3)

roll_driver(g0) ==
    LET g == SortValues(g0, <<"season", "race_round">>)
        pts == driver_points_last_5(g)
        pod == driver_podium_rate_last_5(g)
        dnf == dnf_rate_last_5(g)
        grd == driver_grid_avg_last_3(g)
    IN AsList([i \in 1..Len(g) |->
            g[i] @@ [ driver_points_last_5      |-> pts[i],
                      driver_podium_rate_last_5 |-> pod[i],
                      dnf_rate_last_5           |-> dnf[i],
                      driver_grid_avg_last_3    |-> grd[i] ]])

constructor_points_last_5(g) == RollingSum(Shift(Col(g, "race_points")), 5)

constructor_grid_avg_last_3(g) == RollingMean(Shift(Col(g, "starting_position")), 3)

\* one row per race is kept for the constructor
roll_constructor_one_per_race(g0) ==
    LET g == SortValues(g0, <<"season", "race_round">>)
        first == SelectSeq(g, LAMBDA r :
                     \A x \in { g[j] : j \in 1..Len(g) } :
                         (x.season = r.season /\ x.race_round = r.race_round)
                             => x.index >= r.index)
        pts == constructor_points_last_5(first)
        grd == constructor_grid_avg_last_3(first)
    IN AsList([i \in 1..Len(first) |->
            first[i] @@ [ constructor_points_last_5   |-> pts[i],
                          constructor_grid_avg_last_3 |-> grd[i] ]])

roll_constructor(g0) ==
    LET g == SortValues(g0, <<"season", "race_round">>)
        pts == constructor_points_last_5(g)
        grd == constructor_grid_avg_last_3(g)
    IN AsList([i \in 1..Len(g) |->
            g[i] @@ [ constructor_points_last_5   |-> pts[i],
                      constructor_grid_avg_last_3 |-> grd[i] ]])

\* ------------------------------------------------------------------ groupby
\* the row of df that carries index label k
RowAt(df, k) == df[CHOOSE i \in 1..Len(df) : df[i].index = k]

\* DataFrame.reindex(ax) on unique labels
Reindex(df, ax) == AsList([i \in 1..Len(ax) |-> RowAt(df, ax[i])])

\* df.groupby(key): the groups in ascending key order, each keeping the
\* frame's row order; a row whose key is missing is in no group (dropna)
GroupBy(df, key) ==
    LET keys == SortedInts({ df[i][key] : i \in 1..Len(df) } \ {NA})
    IN AsList([k \in 1..Len(keys) |-> SelectSeq(df, LAMBDA r : r[key] = keys[k])])

\* what groupby(..., group_keys=False).apply makes of the results res of
\* the groups: when every result carries its group's index unchanged the
\* concatenation is put back in the frame's order, over the labels of the
\* grouped rows; otherwise it stays in group order
Applied(df, groups, res) ==
    LET mutated == \E k \in 1..Len(groups) :
                       Col(res[k], "index") # Col(groups[k], "index")
        flat == Flatten(groups)
        grouped == { flat[j].index : j \in 1..Len(flat) }
        ax == SelectSeq(Col(df, "index"), LAMBDA l : l \in grouped)
    IN IF mutated THEN Flatten(res) ELSE Reindex(Flatten(res), ax)

\* df.groupby("driver_id", group_keys=False).apply(roll_driver)
apply_roll_driver(df) ==
    LET groups == GroupBy(df, "driver_id")
    IN Applied(df, groups, AsList([k \in 1..Len(groups) |-> roll_driver(groups[k])]))

\* df.groupby("constructor_id", group_keys=False).apply(roll_constructor)
apply_roll_constructor(df) ==
    LET groups == GroupBy(df, "constructor_id")
    IN Applied(df, groups,
               AsList([k \in 1..Len(groups) |-> roll_constructor(groups[k])]))

\* ------------------------------------------------------------------ season to date
\* Series.cumsum(): a NaN stays NaN and is skipped by the running total
CumSum(col) ==
    AsList([i \in 1..Len(col) |->
        IF IsNaN(col[i]) THEN NaN
        ELSE RatSum(SelectSeq(SubSeq(col, 1, i), LAMBDA q : ~IsNaN(q)))])

\* the running total kept per constructor across seasons
season_to_date_at_all_seasons(df, k) ==
    LET r == RowAt(df, k)
        g == SelectSeq(df, LAMBDA x : x.constructor_id = r.constructor_id)
        s == CumSum(Shift(Col(g, "race_points")))
    IN s[CHOOSE j \in 1..Len(g) : g[j].index = k]

\* df.groupby(["constructor_id", "season"])["race_points"]
\*   .apply(lambda s: s.shift(1).cumsum()).reset_index(level=[0,1], drop=True)
\* read at index label k: the value of the row's own group at the row's place
season_to_date_at(df, k) ==
    LET r == RowAt(df, k)
        g == SelectSeq(df, LAMBDA x : x.constructor_id = r.constructor_id
                                      /\ x.season = r.season)
        s == CumSum(Shift(Col(g, "race_points")))
    IN s[CHOOSE j \in 1..Len(g) : g[j].index = k]

\* the column assigned without the sort by constructor
constructor_points_season_to_date_unsorted(df) ==
    AsList([i \in 1..Len(df) |->
        df[i] @@ [constructor_points_season_to_date |->
                      season_to_date_at(df, df[i].index)]])

\* the frame sorted by constructor, season and round, with the new column
\* assigned by index label
constructor_points_season_to_date(df0) ==
    LET df == SortValues(df0, <<"constructor_id", "season", "race_round">>)
    IN AsList([i \in 1..Len(df) |->
            df[i] @@ [constructor_points_season_to_date |->
                          season_to_date_at(df, df[i].index)]])

\* ------------------------------------------------------------------ fill
fill_cols ==
    << "driver_points_last_5", "driver_podium_rate_last_5", "dnf_rate_last_5",
       "driver_grid_avg_last_3", "constructor_points_last_5",
       "constructor_grid_avg_last_3", "constructor_points_season_to_date" >>

RECURSIVE InsertRat(_, _)
InsertRat(q, s) ==
    IF s = << >> THEN <<q>>
    ELSE IF RatLt(q, Head(s)) THEN <<q>> \o s
    ELSE <<Head(s)>> \o InsertRat(q, Tail(s))

RECURSIVE SortRats(_)
SortRats(qs) == IF qs = << >> THEN << >> ELSE InsertRat(Head(qs), SortRats(Tail(qs)))

\* the defined values of column c
Defined(df, c) == SelectSeq(Col(df, c), LAMBDA q : ~IsNaN(q))

\* Series.median(): NaN is skipped; the middle value, or the mean of the
\* two middle values; NaN when nothing is defined
Median(col) ==
    LET s == SortRats(SelectSeq(col, LAMBDA q : ~IsNaN(q)))
        n == Len(s)
    IN IF n = 0 THEN NaN
       ELSE IF n % 2 = 1 THEN s[(n + 1) \div 2]
       ELSE RatDiv(RatAdd(s[n \div 2], s[n \div 2 + 1]), 2)

\* Series.fillna(v): fillna(NaN) leaves the column as it is
FillNa(df, c, v) ==
    AsList([i \in 1..Len(df) |->
        IF IsNaN(df[i][c]) THEN [df[i] EXCEPT ![c] = v] ELSE df[i]])

\* the fill value taken per constructor instead of over the whole column
fill_column_per_constructor(df, c) ==
    AsList([i \in 1..Len(df) |->
        IF IsNaN(df[i][c])
        THEN [df[i] EXCEPT ![c] =
                 Median(Col(SelectSeq(df, LAMBDA x :
                                x.constructor_id = df[i].constructor_id), c))]
        ELSE df[i]])

\* if df[c].isna().any(): df[c] = df[c].fillna(df[c].median())
fill_column(df, c) ==
    IF \E i \in 1..Len(df) : IsNaN(df[i][c])
    THEN FillNa(df, c, Median(Col(df, c)))
    ELSE df

RECURSIVE fill_loop(_, _)
fill_loop(df, cols) ==
    IF cols = << >> THEN df ELSE fill_loop(fill_column(df, Head(cols)), Tail(cols))

\* the starting_position fallback that follows the fill loop
fill_starting_position(df) ==
    IF \E i \in 1..Len(df) : IsNaN(df[i].starting_position)
    THEN IF \E i \in 1..Len(df) : ~IsNaN(df[i].starting_position)
         THEN LET m == Median(Col(df, "starting_position"))
              IN FillNa(df, "starting_position", RatInt(m[1] \div m[2]))
         ELSE AsList([i \in 1..Len(df) |->
                         [df[i] EXCEPT !.starting_position = RatInt(20)]])
    ELSE df

\* ------------------------------------------------------------------ add_rolling_features
\* the frame as it stands when the fill loop starts
before_fill(df) ==
    constructor_points_season_to_date(
        apply_roll_constructor(apply_roll_driver(is_podium(df))))

\* the frame of the caller had the function worked on it in place: the
\* label column is written before df is first rebound
argument_after_call_in_place(df) == is_podium(df)

\* df = df.copy(): every statement of the function works on the copy, the
\* frame that was passed in is left as it was
argument_after_call(df) == df

\* the fill loop and the starting_position fallback
fill(df) == fill_starting_position(fill_loop(df, fill_cols))

add_rolling_features(df) == fill(before_fill(df))

\* ------------------------------------------------------------------ operations
\* an upsert that stores every argument, None included
upsert_race_result_overwriting(rc, d, v) ==
    { rr \in race_results : ~(rr.race_id = rc /\ rr.driver_id = d) } \cup
        { [ race_id |-> rc, driver_id |-> d, position |-> v.position,
            grid |-> v.grid, status |-> v.status, points |-> v.points ] }

\* seed_f1_data.upsert_race_result: one row per (race_id, driver_id); on an
\* existing row a None argument keeps the stored field
upsert_race_result(rc, d, v) ==
    LET keep(new, old) == IF ~IsNull(new) THEN new ELSE old
    IN IF HasResult(rc, d)
       THEN LET rr == CHOOSE x \in race_results : x.race_id = rc /\ x.driver_id = d
            IN (race_results \ {rr}) \cup
               { [ race_id |-> rc, driver_id |-> d,
                   position |-> keep(v.position, rr.position),
                   grid     |-> keep(v.grid, rr.grid),
                   status   |-> keep(v.status, rr.status),
                   points   |-> keep(v.points, rr.points) ] }
       ELSE race_results \cup
               { [ race_id |-> rc, driver_id |-> d, position |-> v.position,
                   grid |-> v.grid, status |-> v.status, points |-> v.points ] }

\* one result of a seeded round is stored
SeedResult(cap) ==
    /\ pc = "seed"
    /\ \E rc \in races, d \in DOMAIN drivers : \E v \in fastf1[rc] :
          /\ HasResult(rc, d) \/ Cardinality(race_results) < cap
          /\ race_results' = upsert_race_result(rc, d, v)
    /\ UNCHANGED <<drivers, races, fastf1, pc, input, raw, out, train_df, args, cur,
                   request, response, verify>>

\* every row kept for training
dropna_keep_all(df) == df

\* df.dropna(subset=["final_position"])
dropna_final_position(df) == SelectSeq(df, LAMBDA r : ~IsNull(r.final_position))

\* train_podium_v1.build_dataset up to the training rows
build_dataset ==
    /\ pc = "seed"
    /\ input' = argument_after_call(fetch_base)
    /\ IF input' = << >>
       THEN /\ pc' = "no_data"
            /\ raw' = << >> /\ out' = << >> /\ train_df' = << >>
       ELSE /\ raw' = before_fill(input')
            /\ out' = fill(raw')
            /\ train_df' = dropna_final_position(out')
            /\ pc' = IF train_df' = << >> THEN "empty_training_set" ELSE "trained"
    /\ UNCHANGED <<drivers, races, race_results, fastf1, args, cur, request, response, verify>>

\* ------------------------------------------------------------------ predict_podium
\* what a call made of its table: the frame it returned, or the exception
\* it raised
Returns(df) == [raised |-> "none", df |-> df]
Raised(e) == [raised |-> e, df |-> << >>]

\* the frame without column c
Drop(df, c) == AsList([i \in 1..Len(df) |-> [f \in DOMAIN df[i] \ {c} |-> df[i][f]]])

HasColumn(df, c) == \A i \in 1..Len(df) : c \in DOMAIN df[i]

\* df.groupby("driver_id", group_keys=False).apply(roll_driver, include_groups=False):
\* the groups are handed over, and come back, without the grouping column
predict_apply_roll_driver(df) ==
    LET groups == GroupBy(df, "driver_id")
        passed == AsList([k \in 1..Len(groups) |-> Drop(groups[k], "driver_id")])
    IN Applied(df, passed, AsList([k \in 1..Len(passed) |-> roll_driver(passed[k])]))

\* df.groupby("constructor_id", group_keys=False).apply(roll_constructor, include_groups=False)
predict_apply_roll_constructor(df) ==
    LET groups == GroupBy(df, "constructor_id")
        passed == AsList([k \in 1..Len(groups) |-> Drop(groups[k], "constructor_id")])
    IN Applied(df, passed, AsList([k \in 1..Len(passed) |-> roll_constructor(passed[k])]))

\* predict_podium.add_rolling_features: the statements of the training
\* script's function around the two apply calls above; sort_values raises
\* KeyError on a column the frame no longer has
predict_add_rolling_features(df) ==
    LET d == predict_apply_roll_constructor(predict_apply_roll_driver(is_podium(df)))
    IN IF HasColumn(d, "constructor_id")
       THEN Returns(fill(constructor_points_season_to_date(d)))
       ELSE Raised("KeyError")

\* the query of fetch_all_up_to on the tables rcs and rrs
fetch_all_up_to(rcs, rrs, season) ==
    LET joined == { BaseRow(rr) : rr \in { x \in rrs :
                        /\ x.race_id \in rcs /\ x.driver_id \in DOMAIN drivers
                        /\ x.race_id[1] <= season } }
    IN RangeIndexed(OrderBy(joined, <<"season", "race_round", "driver_id">>))

\* ensure_race_and_stubs: the race row, if missing
ensure_race(season, round_no) == races \cup {<<season, round_no>>}

\* stubs written with ON CONFLICT DO UPDATE: rows of the race are emptied
ensure_stubs_overwriting(season, round_no) ==
    { rr \in race_results : rr.race_id # <<season, round_no>> } \cup
        { [ race_id |-> <<season, round_no>>, driver_id |-> d, position |-> Null,
            grid |-> Null, status |-> Null, points |-> Null ] : d \in DOMAIN drivers }

\* ensure_race_and_stubs: an empty result row for every driver that has
\* none in the race
ensure_stubs(season, round_no) ==
    race_results \cup
        { [ race_id |-> <<season, round_no>>, driver_id |-> d, position |-> Null,
            grid |-> Null, status |-> Null, points |-> Null ] :
          d \in { x \in DOMAIN drivers : ~HasResult(<<season, round_no>>, x) } }

\* the races a scoring run may be asked for: one before all data, one that
\* is stored, one that is not stored yet
Targets == {<<2023, 1>>, <<2024, 2>>, <<2024, 3>>}

\* df[(df["season"] == args.season) & (df["race_round"] == args.round)]
TargetRows(df, t) == SelectSeq(df, LAMBDA r : r.season = t[1] /\ r.race_round = t[2])

\* predict_podium.main, from the model file check to predict_proba
main ==
    /\ pc \in {"seed", "trained"}
    /\ \E t \in Targets :
          LET df == fetch_all_up_to(races, race_results, t[1])
              first == predict_add_rolling_features(df)
          IN /\ args' = Some(t)
             /\ train_df' = train_df
             /\ IF pc = "seed" \/ df = << >> \/ first.raised # "none"
                THEN /\ pc' = IF pc = "seed" THEN "model_not_found"
                              ELSE IF df = << >> THEN "no_data"
                              ELSE first.raised
                     /\ input' = IF pc = "seed" THEN << >> ELSE df
                     /\ raw' = << >> /\ out' = << >> /\ cur' = << >>
                     /\ UNCHANGED <<races, race_results>>
                ELSE /\ races' = ensure_race(t[1], t[2])
                     /\ race_results' = ensure_stubs(t[1], t[2])
                     /\ input' = fetch_all_up_to(races', race_results', t[1])
                     /\ raw' = << >>
                     /\ LET second == predict_add_rolling_features(input')
                        IN IF second.raised # "none"
                           THEN pc' = second.raised /\ out' = << >> /\ cur' = << >>
                           ELSE /\ out' = second.df
                                /\ cur' = TargetRows(out', t)
                                /\ pc' = IF cur' = << >> THEN "target_not_found"
                                         ELSE "predicted"
    /\ UNCHANGED <<drivers, fastf1, request, response, verify>>

\* predict_podium.ensure_race_and_stubs called for a target race
ensure_race_and_stubs ==
    /\ pc = "seed"
    /\ \E t \in Targets :
          /\ args' = Some(t)
          /\ races' = ensure_race(t[1], t[2])
          /\ race_results' = ensure_stubs(t[1], t[2])
    /\ UNCHANGED <<drivers, fastf1, pc, input, raw, out, train_df, cur,
                   request, response, verify>>

\* ------------------------------------------------------------------ app/api/routes/stats.py
\* drivers.code of the driver with id d (unique), and the order in which
\* the database sorts the codes
Codes == <<"VER", "HAM", "NOR">>
Collation == <<"HAM", "NOR", "VER">>
CodeOf(d) == Codes[d]
CodeRank(c) == CHOOSE i \in 1..Len(Collation) : Collation[i] = c

\* str.upper() on the driver parameters a client sends
upper(s) ==
    CASE s = "ver" -> "VER"
      [] s = "Ham" -> "HAM"
      [] s = "alo" -> "ALO"
      [] OTHER -> s

\* the names the module imports from app.schemas.stats, and the names its
\* route decorators pass as response_model
Imported == {"WinsRacesResponse", "DriversLeaderboardResponse", "DriverRow", "RaceWin"}
ResponseModels ==
    {"WinsRacesResponse", "DriversLeaderboardResponse", "ConstructorsLeaderboardResponse"}

\* importing the module evaluates every decorator: a name that is not
\* bound raises NameError and no route exists
stats_module == IF ResponseModels \subseteq Imported THEN "loaded" ELSE "NameError"

\* what a client gets: a response, or the exception that kept the
\* application from being built
Responds(status, body) == [raised |-> "none", status |-> status, body |-> body]
Fails(e) == [raised |-> e]

\* race_results JOIN races JOIN drivers WHERE d.code = :code AND r.year = :season
SeasonResults(code, season) ==
    { rr \in race_results :
        /\ rr.race_id \in races /\ rr.driver_id \in DOMAIN drivers
        /\ CodeOf(rr.driver_id) = code /\ rr.race_id[1] = season }

RECURSIVE SumPoints(_)
\* SUM(rr.points): NULL is skipped, NULL when nothing is summed
SumPoints(S) ==
    IF S = {} THEN Null
    ELSE LET rr == CHOOSE x \in S : TRUE
             rest == SumPoints(S \ {rr})
         IN IF IsNull(rr.points) THEN rest
            ELSE IF IsNull(rest) THEN rr.points
            ELSE Some(rr.points[1] + rest[1])

Wins(S) == Cardinality({ rr \in S : rr.position = Some(1) })
Podiums(S) == Cardinality({ rr \in S : rr.position \in {Some(1), Some(2), Some(3)} })

\* _ensure_driver: SELECT 1 FROM drivers WHERE code = :code
ensure_driver(code) == \E d \in DOMAIN drivers : CodeOf(d) = code

NotFound(code) == Responds(404, [detail |-> code])

\* Query(..., ge=1950) and Query(..., ge=1, le=100)
ValidSeason(season) == season >= 1950
ValidLimit(limit) == limit >= 1 /\ limit <= 100
Unprocessable == Responds(422, Null)

wins(driver, season) ==
    LET code == upper(driver)
    IN IF ~ValidSeason(season) THEN Unprocessable
       ELSE IF ~ensure_driver(code) THEN NotFound(code)
       ELSE Responds(200, [driver |-> code, season |-> season,
                           wins |-> Wins(SeasonResults(code, season))])

\* the race row of a result as the query selects it; a stub race has no date
RaceWin(rc) == [race_id |-> rc, round |-> rc[2]]

wins_races(driver, season) ==
    LET code == upper(driver)
        won == { rr.race_id : rr \in { x \in SeasonResults(code, season) :
                                         x.position = Some(1) } }
        rounds == SortedInts({ rc[2] : rc \in won })
        rows == AsList([i \in 1..Len(rounds) |-> RaceWin(<<season, rounds[i]>>)])
    IN IF ~ValidSeason(season) THEN Unprocessable
       ELSE IF ~ensure_driver(code) THEN NotFound(code)
       ELSE Responds(200, [driver |-> code, season |-> season,
                           wins_count |-> Len(rows), races |-> rows])

podiums(driver, season) ==
    LET code == upper(driver)
    IN IF ~ValidSeason(season) THEN Unprocessable
       ELSE IF ~ensure_driver(code) THEN NotFound(code)
       ELSE Responds(200, [driver |-> code, season |-> season,
                           podiums |-> Podiums(SeasonResults(code, season))])

points(driver, season) ==
    LET code == upper(driver)
    IN IF ~ValidSeason(season) THEN Unprocessable
       ELSE IF ~ensure_driver(code) THEN NotFound(code)
       ELSE Responds(200, [driver |-> code, season |-> season,
                           points |-> Coalesce(SumPoints(SeasonResults(code, season)), 0)])

summary(driver, season) ==
    LET code == upper(driver)
        S == SeasonResults(code, season)
    IN IF ~ValidSeason(season) THEN Unprocessable
       ELSE IF ~ensure_driver(code) THEN NotFound(code)
       ELSE Responds(200, [driver |-> code, season |-> season, wins |-> Wins(S),
                           podiums |-> Podiums(S), points |-> Coalesce(SumPoints(S), 0)])

\* one row of the standings: GROUP BY d.code, d.name, t.name
DriverRow(d, season) ==
    LET S == SeasonResults(CodeOf(d), season)
    IN [ code |-> CodeOf(d), team |-> drivers[d],
         points |-> Coalesce(SumPoints(S), 0), wins |-> Wins(S), podiums |-> Podiums(S) ]

\* ORDER BY points DESC, wins DESC, d.code ASC
StandingsKey(row) ==
    row @@ [by_points |-> -row.points, by_wins |-> -row.wins, by_code |-> CodeRank(row.code)]

drivers_leaderboard(season, limit) ==
    LET scored == { d \in DOMAIN drivers : SeasonResults(CodeOf(d), season) # {} }
        sorted == OrderBy({ StandingsKey(DriverRow(d, season)) : d \in scored },
                          <<"by_points", "by_wins", "by_code">>)
        n == IF limit < Len(sorted) THEN limit ELSE Len(sorted)
        rows == AsList([i \in 1..n |->
                    [ code |-> sorted[i].code, team |-> sorted[i].team,
                      points |-> sorted[i].points, wins |-> sorted[i].wins,
                      podiums |-> sorted[i].podiums ]])
    IN IF ~ValidSeason(season) \/ ~ValidLimit(limit) THEN Unprocessable
       ELSE Responds(200, [season |-> season, count |-> Len(rows), drivers |-> rows])

\* the parameters a client may send
DriverParams == {"ver", "Ham", "NOR", "alo"}
SeasonParams == {2024, 2025}
LimitParams == {1, 2, 3}

\* a GET request: the handler's response if the application could be
\* built, else the exception of the import; the database is only read
Get(req, handled) ==
    /\ pc = "seed"
    /\ request' = Some(req)
    /\ response' = IF stats_module = "loaded" THEN handled ELSE Fails(stats_module)
    /\ UNCHANGED <<drivers, races, race_results, fastf1, pc, input, raw, out, train_df,
                   args, cur, verify>>

get_wins ==
    \E driver \in DriverParams, season \in SeasonParams :
        Get([path |-> "/stats/wins", driver |-> driver, season |-> season],
            wins(driver, season))

get_wins_races ==
    \E driver \in DriverParams, season \in SeasonParams :
        Get([path |-> "/stats/wins/races", driver |-> driver, season |-> season],
            wins_races(driver, season))

get_podiums ==
    \E driver \in DriverParams, season \in SeasonParams :
        Get([path |-> "/stats/podiums", driver |-> driver, season |-> season],
            podiums(driver, season))

get_points ==
    \E driver \in DriverParams, season \in SeasonParams :
        Get([path |-> "/stats/points", driver |-> driver, season |-> season],
            points(driver, season))

get_summary ==
    \E driver \in DriverParams, season \in SeasonParams :
        Get([path |-> "/stats/summary", driver |-> driver, season |-> season],
            summary(driver, season))

get_leaderboard ==
    \E season \in SeasonParams, limit \in LimitParams :
        Get([path |-> "/stats/leaderboard", season |-> season, limit |-> limit],
            drivers_leaderboard(season, limit))

\* ------------------------------------------------------------------ seeding scripts
\* the teams a provider row may name, and the drivers it may list
Teams == {1, 2}
Roster == {1, 2}

\* seed_f1_data.get_or_create_race / seed_results_from_fastf12025.upsert_race
get_or_create_race(rc) == races \cup {rc}

\* seed_f1_data.get_or_create_driver: found by code, the team is set only
\* when the driver has none; created with the team otherwise
get_or_create_driver(d, team) ==
    IF d \in DOMAIN drivers
    THEN IF drivers[d] = NA THEN [drivers EXCEPT ![d] = team] ELSE drivers
    ELSE drivers @@ (d :> team)

\* seed_results_from_fastf12025.upsert_driver: ON CONFLICT (code) DO UPDATE
\* SET team_id = EXCLUDED.team_id
upsert_driver(d, team) ==
    IF d \in DOMAIN drivers THEN [drivers EXCEPT ![d] = team] ELSE drivers @@ (d :> team)

\* seed_results_from_fastf12025.upsert_result: ON CONFLICT DO UPDATE of
\* every field
upsert_result(rc, d, v) ==
    { rr \in race_results : ~(rr.race_id = rc /\ rr.driver_id = d) } \cup
        { [ race_id |-> rc, driver_id |-> d, position |-> v.position,
            grid |-> v.grid, status |-> v.status, points |-> v.points ] }

\* one row of the results loop of seed_results_from_fastf12025.seed_season
seed_results_2025 ==
    /\ pc = "seed"
    /\ \E rc \in DOMAIN fastf1, d \in Roster, team \in Teams : \E v \in fastf1[rc] :
          /\ races' = get_or_create_race(rc)
          /\ drivers' = upsert_driver(d, team)
          /\ race_results' = upsert_result(rc, d, v)
    /\ UNCHANGED <<fastf1, pc, input, raw, out, train_df, args, cur, request, response, verify>>

\* session.results of a round: for each listed abbreviation the team, the
\* classification and whether team, abbreviation and name are all present
Listings(rc) ==
    UNION { [ds -> [team : Teams, result : fastf1[rc], complete : BOOLEAN]] :
            ds \in SUBSET Roster }

\* the rows of a listing that pass the incomplete-row skip
Processed(listing) == { d \in DOMAIN listing : listing[d].complete }

\* abbreviations collected before the incomplete-row skip
expected_abbrs_before_skip(listing) == { CodeOf(d) : d \in DOMAIN listing }

\* expected_abbrs at the verification step
expected_abbrs(listing) == { CodeOf(d) : d \in Processed(listing) }

\* the drivers table after the loop over the listing
SeededDrivers(listing) ==
    [ d \in DOMAIN drivers \cup Processed(listing) |->
        IF d \in Processed(listing)
        THEN get_or_create_driver(d, listing[d].team)[d]
        ELSE drivers[d] ]

\* the race_results table after the loop over the listing and the flush
SeededResults(rc, listing) ==
    { rr \in race_results : ~(rr.race_id = rc /\ rr.driver_id \in Processed(listing)) } \cup
        { CHOOSE x \in upsert_race_result(rc, d, listing[d].result) :
              x.race_id = rc /\ x.driver_id = d : d \in Processed(listing) }

\* Driver.code joined to the race_results of the race
db_abbrs(rc, ds, rrs) ==
    { CodeOf(rr.driver_id) : rr \in { x \in rrs : x.race_id = rc /\ x.driver_id \in DOMAIN ds } }

\* a run of seed_f1_data.seed_season in which the results of one round
\* load: the loop over the listing, the flush, the verification, then the
\* commit, or the rollback and RuntimeError under STRICT_VERIFY
seed_season ==
    /\ pc = "seed"
    /\ \E rc \in DOMAIN fastf1, STRICT_VERIFY \in BOOLEAN : \E listing \in Listings(rc) :
          LET ds == SeededDrivers(listing)
              rrs == SeededResults(rc, listing)
              missing == expected_abbrs(listing) \ db_abbrs(rc, ds, rrs)
              failed == missing # {} /\ STRICT_VERIFY
          IN /\ verify' = Some([ race |-> rc, expected_abbrs |-> expected_abbrs(listing),
                                 db_abbrs |-> db_abbrs(rc, ds, rrs), missing |-> missing,
                                 raised |-> IF failed THEN "RuntimeError" ELSE "none" ])
             /\ drivers' = IF failed THEN drivers ELSE ds
             /\ races' = IF failed THEN races ELSE get_or_create_race(rc)
             /\ race_results' = IF failed THEN race_results ELSE rrs
    /\ UNCHANGED <<fastf1, pc, input, raw, out, train_df, args, cur, request, response>>

\* ------------------------------------------------------------------ specifications
\* two drivers of one constructor and one of another; two rounds of one
\* season and the opening round of the next; any stored result may be reported
Init ==
    /\ drivers = (1 :> 1) @@ (2 :> 1) @@ (3 :> 2)
    /\ races = {<<2024, 1>>, <<2024, 2>>, <<2025, 1>>}
    /\ fastf1 = [rc \in races |-> StoredResults]
    /\ race_results = {}
    /\ pc = "seed"
    /\ input = << >> /\ raw = << >> /\ out = << >> /\ train_df = << >>
    /\ args = Null /\ cur = << >>
    /\ request = Null /\ response = Null /\ verify = Null

Next == SeedResult(MaxRows) \/ build_dataset

Spec == Init /\ [][Next]_vars

\* one driver with a long history in one season, classified in round r at
\* position r; rounds may be seeded in any order and any round may be missing
InitHistory ==
    /\ drivers = (1 :> 1)
    /\ races = {2024} \X (1..MaxHistory)
    /\ fastf1 = [rc \in races |-> {Classified(rc[2])}]
    /\ race_results = {}
    /\ pc = "seed"
    /\ input = << >> /\ raw = << >> /\ out = << >> /\ train_df = << >>
    /\ args = Null /\ cur = << >>
    /\ request = Null /\ response = Null /\ verify = Null

NextHistory == SeedResult(MaxHistory) \/ build_dataset

SpecHistory == InitHistory /\ [][NextHistory]_vars

\* the worked example: driver 42 starts third, fifth and second and scores
\* 10, 0 and 18 points in the first three rounds, then finishes round r at
\* position r; any round may instead be reported as a retirement, or be
\* missing
ExampleResult(r) ==
    CASE r = 1 -> Finish(3, 5)
      [] r = 2 -> Finish(5, 11)
      [] r = 3 -> Finish(2, 2)
      [] OTHER -> Classified(r)

InitExample ==
    /\ drivers = (42 :> 1)
    /\ races = {2024} \X (1..ExampleRounds)
    /\ fastf1 = [rc \in races |-> {ExampleResult(rc[2]), Retired}]
    /\ race_results = {}
    /\ pc = "seed"
    /\ input = << >> /\ raw = << >> /\ out = << >> /\ train_df = << >>
    /\ args = Null /\ cur = << >>
    /\ request = Null /\ response = Null /\ verify = Null

NextExample == SeedResult(ExampleRounds) \/ build_dataset

SpecExample == InitExample /\ [][NextExample]_vars

\* the scoring script run on a small database, before or after training:
\* two drivers of two constructors and the two stored rounds of one season
InitPredict ==
    /\ drivers = (1 :> 1) @@ (2 :> 2)
    /\ races = {<<2024, 1>>, <<2024, 2>>}
    /\ fastf1 = [rc \in races |-> StoredResults]
    /\ race_results = {}
    /\ pc = "seed"
    /\ input = << >> /\ raw = << >> /\ out = << >> /\ train_df = << >>
    /\ args = Null /\ cur = << >>
    /\ request = Null /\ response = Null /\ verify = Null

NextPredict == SeedResult(MaxRows) \/ build_dataset \/ main

SpecPredict == InitPredict /\ [][NextPredict]_vars

\* the API in front of a small database: two of the three known codes
\* have a driver row, the season 2024 has two rounds and 2025 none; a
\* result is a win, a third place or a retirement
InitApi ==
    /\ drivers = (1 :> 1) @@ (2 :> 2)
    /\ races = {<<2024, 1>>, <<2024, 2>>}
    /\ fastf1 = [rc \in races |-> {Classified(1), Classified(3), Retired}]
    /\ race_results = {}
    /\ pc = "seed"
    /\ input = << >> /\ raw = << >> /\ out = << >> /\ train_df = << >>
    /\ args = Null /\ cur = << >>
    /\ request = Null /\ response = Null /\ verify = Null

NextApi ==
    \/ SeedResult(ApiRows)
    \/ get_wins \/ get_wins_races \/ get_podiums
    \/ get_points \/ get_summary \/ get_leaderboard

SpecApi == InitApi /\ [][NextApi]_vars

\* one driver is known and one race is stored; the schedule holds that race
\* and the opening round of the next season; both seeding scripts may run
InitSeed ==
    /\ drivers = (1 :> 1)
    /\ races = {<<2024, 1>>}
    /\ fastf1 = (<<2024, 1>> :> {Classified(1), Retired}) @@ (<<2025, 1>> :> {Classified(3)})
    /\ race_results = {}
    /\ pc = "seed"
    /\ input = << >> /\ raw = << >> /\ out = << >> /\ train_df = << >>
    /\ args = Null /\ cur = << >>
    /\ request = Null /\ response = Null /\ verify = Null

NextSeed == seed_season \/ seed_results_2025

SpecSeed == InitSeed /\ [][NextSeed]_vars

\* two drivers and two stored rounds; results are seeded and stubs are
\* ensured for the target races in any order
InitStubs ==
    /\ drivers = (1 :> 1) @@ (2 :> 2)
    /\ races = {<<2024, 1>>, <<2024, 2>>}
    /\ fastf1 = [rc \in races \cup Targets |-> {Classified(1)}]
    /\ race_results = {}
    /\ pc = "seed"
    /\ input = << >> /\ raw = << >> /\ out = << >> /\ train_df = << >>
    /\ args = Null /\ cur = << >>
    /\ request = Null /\ response = Null /\ verify = Null

NextStubs == SeedResult(MaxRows) \/ ensure_race_and_stubs

SpecStubs == InitStubs /\ [][NextStubs]_vars

\* ------------------------------------------------------------------ properties
\* add_rolling_features has returned
Returned == pc \in {"trained", "empty_training_set"}

\* row a belongs to a strictly earlier race than row b
Earlier(a, b) ==
    a.season < b.season \/ (a.season = b.season /\ a.race_round < b.race_round)

\* row r with its own result blanked: no points, no position, no status,
\* the default grid slot
Blank(r) ==
    [r EXCEPT !.race_points = RatInt(0), !.final_position = Null,
              !.finish_status = Null, !.starting_position = RatInt(20)]

DriverHistory(df, r) ==
    SelectSeq(df, LAMBDA x : x.driver_id = r.driver_id /\ Earlier(x, r))

ConstructorHistory(df, r) ==
    SelectSeq(df, LAMBDA x : x.constructor_id = r.constructor_id /\ Earlier(x, r))

DriverStats(r) ==
    << r.driver_points_last_5, r.driver_podium_rate_last_5,
       r.dnf_rate_last_5, r.driver_grid_avg_last_3 >>

ConstructorStats(r) == << r.constructor_points_last_5, r.constructor_grid_avg_last_3 >>

Last(s) == s[Len(s)]

\* C1: before filling, the four per-driver statistics of every row are
\* what the driver's strictly earlier rows alone produce: they equal the
\* statistics of that history followed by the row with its own result
\* blanked, so the row's own points, position, status and grid slot, and
\* every other row of the table, have no part in them.
C1_DriverStatsFromEarlierRowsOnly ==
    Returned =>
        \A i \in 1..Len(input) :
            LET r == input[i]
                alone == roll_driver(is_podium(DriverHistory(input, r) \o <<Blank(r)>>))
            IN DriverStats(RowAt(raw, r.index)) = DriverStats(Last(alone))

\* a row with a history and a result of its own that differs from the blank
\* one in points, position, status and grid slot
C1_Witness ==
    /\ Returned
    /\ \E i \in 1..Len(input) :
          /\ DriverHistory(input, input[i]) # << >>
          /\ input[i].race_points # RatInt(0)
          /\ input[i].starting_position # RatInt(20)
          /\ ~IsNull(input[i].final_position)
          /\ ~IsNull(input[i].finish_status)
          /\ ~IsNaN(RowAt(raw, input[i].index).driver_points_last_5)

\* C2: before filling, the two per-constructor statistics of every row
\* are what the constructor's rows of strictly earlier races alone produce;
\* a team-mate's row of the same race has no part in them.
C2_ConstructorStatsFromEarlierRacesOnly ==
    Returned =>
        \A i \in 1..Len(input) :
            LET r == input[i]
                alone == roll_constructor(ConstructorHistory(input, r) \o <<Blank(r)>>)
            IN ConstructorStats(RowAt(raw, r.index)) = ConstructorStats(Last(alone))

\* the last n elements of s
LastN(s, n) == SubSeq(s, Len(s) - n + 1, Len(s))

Min(a, b) == IF a < b THEN a ELSE b

\* C3: a row with n >= 1 earlier rows of its driver has
\* driver_points_last_5 equal to the sum of race_points over the min(5, n)
\* immediately preceding ones, whatever the round numbers between them.
C3_DriverPointsLast5 ==
    Returned =>
        \A i \in 1..Len(input) :
            LET h == DriverHistory(input, input[i])
            IN h # << >> =>
                 RowAt(raw, input[i].index).driver_points_last_5
                   = RatSum(Col(LastN(h, Min(5, Len(h))), "race_points"))

\* the driver's eighth race after seven earlier ones, races 3 to 7 scoring
\* 15 + 12 + 10 + 8 + 6
C3_Witness ==
    /\ Returned
    /\ \E i \in 1..Len(input) :
          /\ Len(DriverHistory(input, input[i])) = 7
          /\ input[i].race_round = 8
          /\ RowAt(raw, input[i].index).driver_points_last_5 = RatInt(51)

\* the number of entries of s that satisfy the status test
DnfCount(h) ==
    Len(SelectSeq(h, LAMBDA x : ~IsNull(x.finish_status)
                                /\ x.finish_status[1] \in {"DNF", "DSQ", "DNS", "DNQ"}))

\* C4: a row with n >= 1 earlier rows of its driver has dnf_rate_last_5
\* equal to the number of DNF/DSQ/DNS/DNQ rows among the min(5, n)
\* immediately preceding ones, divided by min(5, n).
C4_DnfRateLast5 ==
    Returned =>
        \A i \in 1..Len(input) :
            LET h == DriverHistory(input, input[i])
                w == LastN(h, Min(5, Len(h)))
            IN h # << >> =>
                 RowAt(raw, input[i].index).dnf_rate_last_5 = Rat(DnfCount(w), Len(w))

\* the k-th smallest of the values qs, by counting
KthSmallest(qs, k) ==
    LET V == { qs[j] : j \in 1..Len(qs) }
        below(x) == Cardinality({ j \in 1..Len(qs) : RatLt(qs[j], x) })
        upto(x) == Cardinality({ j \in 1..Len(qs) : ~RatLt(x, qs[j]) })
    IN CHOOSE x \in V : below(x) < k /\ k <= upto(x)

\* the median of the defined values of column c of df: the middle one, or
\* the midpoint of the two middle ones; undefined when there is none
GlobalMedian(df, c) ==
    LET qs == Defined(df, c)
        n == Len(qs)
    IN IF n = 0 THEN NaN
       ELSE RatDiv(RatAdd(KthSmallest(qs, (n + 1) \div 2),
                          KthSmallest(qs, n \div 2 + 1)), 2)

\* the first chronological row of its driver
FirstOfDriver(df, r) == DriverHistory(df, r) = << >>

\* C5: at the first chronological row of every driver each of the four
\* per-driver statistics is undefined before the fill pass and equals the
\* global median of the column's defined values after it.
C5_FirstRowUndefinedThenMedian ==
    Returned =>
        \A i \in 1..Len(input) :
            FirstOfDriver(input, input[i]) =>
                \A k \in 1..4 :
                    /\ IsNaN(RowAt(raw, input[i].index)[fill_cols[k]])
                    /\ RowAt(out, input[i].index)[fill_cols[k]]
                           = GlobalMedian(raw, fill_cols[k])

\* the rows of r's constructor in r's season at strictly earlier races
SeasonHistory(df, r) ==
    SelectSeq(df, LAMBDA x : x.constructor_id = r.constructor_id
                             /\ x.season = r.season /\ Earlier(x, r))

\* C6: before filling, constructor_points_season_to_date of every row is
\* the sum of race_points over the constructor's rows of the same season at
\* strictly earlier races, and undefined when there is no such row.
C6_SeasonToDateExcludesCurrentRace ==
    Returned =>
        \A i \in 1..Len(input) :
            LET h == SeasonHistory(input, input[i])
            IN RowAt(raw, input[i].index).constructor_points_season_to_date
                 = IF h = << >> THEN NaN ELSE RatSum(Col(h, "race_points"))

\* C7: after the fill pass a derived column that had a defined value has
\* no undefined value left; an undefined value has become the median of the
\* defined values of the whole column, a defined value is unchanged.
C7_FillWithGlobalMedian ==
    Returned =>
        \A k \in 1..Len(fill_cols) :
            LET c == fill_cols[k]
            IN Defined(raw, c) # << >> =>
                 \A i \in 1..Len(raw) :
                     LET before == raw[i][c]
                         after == RowAt(out, raw[i].index)[c]
                     IN /\ ~IsNaN(after)
                        /\ after = IF IsNaN(before) THEN GlobalMedian(raw, c) ELSE before

\* two constructors whose own medians differ from the global one, each
\* with an undefined value that was filled
C7_Witness ==
    /\ Returned
    /\ \E i, j \in 1..Len(raw) :
          /\ raw[i].constructor_id # raw[j].constructor_id
          /\ IsNaN(raw[i].driver_points_last_5)
          /\ IsNaN(raw[j].driver_points_last_5)
          /\ \E a, b \in 1..Len(raw) :
                /\ raw[a].constructor_id = raw[i].constructor_id
                /\ raw[b].constructor_id = raw[j].constructor_id
                /\ ~IsNaN(raw[a].driver_points_last_5)
                /\ ~IsNaN(raw[b].driver_points_last_5)
                /\ raw[a].driver_points_last_5 # raw[b].driver_points_last_5
          /\ RowAt(out, raw[i].index).driver_points_last_5 = Rat(25, 2)

\* C8: add_rolling_features never returns a table with an undefined value
\* in one of the seven derived columns; a column without any defined value
\* ends the transform in an error instead.
C8_NoUndefinedValueReturned ==
    Returned =>
        \A k \in 1..Len(fill_cols) :
            \A i \in 1..Len(out) : ~IsNaN(out[i][fill_cols[k]])

Ident(r) == <<r.season, r.race_round, r.driver_id, r.constructor_id>>

\* C9: the returned table has exactly one row per input row, carrying the
\* season, round, driver and constructor of the input row it came from.
C9_OneRowPerInputRow ==
    Returned =>
        /\ Len(out) = Len(input)
        /\ \A i \in 1..Len(input) :
              /\ Cardinality({ j \in 1..Len(out) : out[j].index = input[i].index }) = 1
              /\ Ident(RowAt(out, input[i].index)) = Ident(input[i])

\* both drivers of a constructor in one race, and a second constructor
C9_Witness ==
    /\ Returned
    /\ \E i, j, k \in 1..Len(out) :
          /\ i # j
          /\ out[i].race_id = out[j].race_id
          /\ out[i].constructor_id = out[j].constructor_id
          /\ out[k].constructor_id # out[i].constructor_id

\* the rows of df are in ascending order of the columns by
SortedBy(df, by) == \A i \in 1..(Len(df) - 1) : RowLt(df[i], df[i + 1], by)

\* C10 as stated: the returned rows are in (season, race_round, driver_id)
\* order.
C10_GlobalOrderPreserved ==
    Returned => SortedBy(out, <<"season", "race_round", "driver_id">>)

\* C10 as amended: the returned rows are in (constructor_id, season,
\* race_round, driver_id) order.
C10_ConstructorOrder ==
    Returned => SortedBy(out, <<"constructor_id", "season", "race_round", "driver_id">>)

\* a later race of the first constructor placed before an earlier race of
\* the second
C10_Witness ==
    /\ Returned
    /\ \E i \in 1..(Len(out) - 1) :
          /\ out[i].constructor_id < out[i + 1].constructor_id
          /\ Earlier(out[i + 1], out[i])

\* ------------------------------------------------------------------ C11
\* the tables that hold the rows of df in another order, every row keeping
\* its index label
Shuffles(df) ==
    { AsList([i \in 1..Len(df) |-> df[p[i]]]) : p \in Permutations(1..Len(df)) }

\* C11: whatever the order in which the rows are handed in, the transform
\* returns for each (season, race_round, driver_id) row the same values as
\* for the table in its fetched order; only the position of a row may
\* differ.
C11_ShuffleInvariant ==
    Returned =>
        \A s \in Shuffles(input) :
            LET o == add_rolling_features(s)
            IN /\ Len(o) = Len(out)
               /\ \A i \in 1..Len(out) : RowAt(o, out[i].index) = out[i]

\* ------------------------------------------------------------------ C12
\* C12: every returned row has is_podium 0 or 1; it is 1 exactly when the
\* row's final_position is 1, 2 or 3, and 0 when final_position is
\* undefined.
C12_PodiumLabel ==
    Returned =>
        \A i \in 1..Len(input) :
            LET p == input[i].final_position
                l == RowAt(out, input[i].index).is_podium
            IN /\ l \in {0, 1}
               /\ l = 1 <=> p \in {Some(1), Some(2), Some(3)}
               /\ IsNull(p) => l = 0

\* a podium finish, a classified finish off the podium and a row without
\* final_position in one table
C12_Witness ==
    /\ Returned
    /\ \E i, j, k \in 1..Len(out) :
          /\ out[i].final_position = Some(2) /\ out[i].is_podium = 1
          /\ out[j].final_position = Some(5) /\ out[j].is_podium = 0
          /\ IsNull(out[k].final_position) /\ out[k].is_podium = 0

\* ------------------------------------------------------------------ C13
\* the training rows that come from the input row r
TrainingRows(r) == { j \in 1..Len(train_df) : train_df[j].index = r.index }

\* C13 as stated: a row whose final_position is undefined reaches the
\* training set, as a non-podium example with label 0.
C13_UndefinedPositionTrainedAsNonPodium ==
    Returned =>
        \A i \in 1..Len(input) :
            IsNull(input[i].final_position) =>
                \E j \in TrainingRows(input[i]) : train_df[j].is_podium = 0

\* C13 as amended: the training set holds exactly the rows with a defined
\* final_position, each once and with the label of the feature table; a
\* row whose final_position is undefined is labelled 0 in the feature table
\* and is left out of the training set, and a table without any defined
\* final_position ends build_dataset in an error.
C13_UndefinedPositionDropped ==
    Returned =>
        /\ \A i \in 1..Len(input) :
              LET r == input[i]
              IN IF IsNull(r.final_position)
                 THEN TrainingRows(r) = {} /\ RowAt(out, r.index).is_podium = 0
                 ELSE /\ Cardinality(TrainingRows(r)) = 1
                      /\ \A j \in TrainingRows(r) : train_df[j] = RowAt(out, r.index)
        /\ \A j \in 1..Len(train_df) : \E i \in 1..Len(input) : j \in TrainingRows(input[i])
        /\ (pc = "empty_training_set") <=>
               (\A i \in 1..Len(input) : IsNull(input[i].final_position))

\* a training set was built from a table that has a row without
\* final_position
C13_Witness ==
    /\ pc = "trained"
    /\ \E i \in 1..Len(input) :
          IsNull(input[i].final_position) /\ TrainingRows(input[i]) = {}
    /\ \E i \in 1..Len(input) : TrainingRows(input[i]) # {}

\* ------------------------------------------------------------------ C14
\* the stored grid slot of the result that row r was fetched from
StoredGrid(r) ==
    (CHOOSE rr \in race_results :
        rr.race_id = r.race_id /\ rr.driver_id = r.driver_id).grid

\* the mean of the defined values of qs, undefined when there is none
MeanDefined(qs) ==
    LET obs == SelectSeq(qs, LAMBDA q : ~IsNaN(q))
    IN IF obs = << >> THEN NaN ELSE RatDiv(RatSum(obs), Len(obs))

\* the fetched table with every missing grid slot filled as the claim
\* says: the median of the stored grid slots, or 20 when none is stored
MedianFilled(df) ==
    LET stored == SelectSeq(df, LAMBDA r : ~IsNull(StoredGrid(r)))
        grids == AsList([i \in 1..Len(stored) |-> RatInt(StoredGrid(stored[i])[1])])
        v == IF grids = << >> THEN RatInt(20) ELSE Median(grids)
    IN AsList([i \in 1..Len(df) |->
           [df[i] EXCEPT !.starting_position =
               IF IsNull(StoredGrid(df[i])) THEN v ELSE RatInt(StoredGrid(df[i])[1])]])

GridAvgs(r) == << r.driver_grid_avg_last_3, r.constructor_grid_avg_last_3 >>

Holed(df, i) == [df EXCEPT ![i].starting_position = NaN]

Career(df, r) == DriverHistory(df, r) \o <<r>>

\* C15: a row with n >= 1 earlier rows of its driver has
\* driver_grid_avg_last_3 equal to the mean of starting_position over the
\* min(3, n) immediately preceding ones; and a driver whose first three
\* races scored 10, 0 and 18 points from the grid slots 3, 5 and 2 has
\* driver_points_last_5 = 10 and 10 and driver_grid_avg_last_3 = 3 and 4 at
\* the second and third race.
C15_DriverGridAvgLast3 ==
    Returned =>
        \A i \in 1..Len(input) :
            LET h == DriverHistory(input, input[i])
                c == Career(input, input[i])
            IN /\ h # << >> =>
                    RowAt(raw, input[i].index).driver_grid_avg_last_3
                      = RatDiv(RatSum(Col(LastN(h, Min(3, Len(h))), "starting_position")),
                               Min(3, Len(h)))
               /\ ( /\ Len(c) = 3
                    /\ Col(c, "race_points") = <<RatInt(10), RatInt(0), RatInt(18)>>
                    /\ Col(c, "starting_position") = <<RatInt(3), RatInt(5), RatInt(2)>> )
                  => /\ RowAt(raw, c[2].index).driver_points_last_5 = RatInt(10)
                     /\ RowAt(raw, c[3].index).driver_points_last_5 = RatInt(10)
                     /\ RowAt(raw, c[2].index).driver_grid_avg_last_3 = RatInt(3)
                     /\ RowAt(raw, c[3].index).driver_grid_avg_last_3 = RatInt(4)

\* the three races of the example followed by two more, so that at the
\* fifth the window of three has left the first race behind
C15_Witness ==
    /\ Returned
    /\ \E i, k \in 1..Len(input) :
          /\ Col(Career(input, input[i]), "race_points")
                = <<RatInt(10), RatInt(0), RatInt(18)>>
          /\ Col(Career(input, input[i]), "starting_position")
                = <<RatInt(3), RatInt(5), RatInt(2)>>
          /\ RowAt(raw, input[i].index).driver_grid_avg_last_3 = RatInt(4)
          /\ Len(DriverHistory(input, input[k])) = 4
          /\ RowAt(raw, input[k].index).driver_grid_avg_last_3 = Rat(11, 3)

\* ------------------------------------------------------------------ C16
\* the rows whose race_points make up the season-to-date value of row r of
\* the sorted table df: the rows placed before r
ToDate(df, r) ==
    LET k == CHOOSE j \in 1..Len(df) : df[j].index = r.index
    IN SubSeq(df, 1, k - 1)

\* C16: before filling, constructor_points_season_to_date of every row is
\* a sum of race_points over rows of the same constructor and the same
\* season only: rows of another season never count, and the first row of a
\* constructor in a season is undefined whatever the constructor did in
\* earlier seasons.
C16_SeasonToDateResets ==
    Returned =>
        \A i \in 1..Len(raw) :
            LET r == raw[i]
                same == SelectSeq(ToDate(raw, r), LAMBDA x :
                            x.constructor_id = r.constructor_id /\ x.season = r.season)
            IN r.constructor_points_season_to_date
                 = IF same = << >> THEN NaN ELSE RatSum(Col(same, "race_points"))

\* a constructor that scored in one season and whose first row of the next
\* season is undefined
C16_Witness ==
    /\ Returned
    /\ \E i, j \in 1..Len(raw) :
          /\ raw[i].constructor_id = raw[j].constructor_id
          /\ raw[i].season < raw[j].season
          /\ raw[i].race_points # RatInt(0)
          /\ IsNaN(raw[j].constructor_points_season_to_date)

\* ------------------------------------------------------------------ C17
\* df with the identifying field key of its i-th row missing
Lacking(df, i, key) == [df EXCEPT ![i][key] = NA]

\* C17: handed a table of two or more rows of which one lacks its
\* driver_id or its constructor_id, the transform does not return a table
\* from which that row has disappeared.
C17_RowWithoutIdNotDropped ==
    (Returned /\ Len(input) >= 2) =>
        \A i \in 1..Len(input) : \A key \in {"driver_id", "constructor_id"} :
            LET o == add_rolling_features(Lacking(input, i, key))
            IN \E j \in 1..Len(o) : o[j].index = input[i].index

\* ------------------------------------------------------------------ C18
Derived(r) == <<r.is_podium>> \o AsList([k \in 1..Len(fill_cols) |-> r[fill_cols[k]]])

\* C18: on the table the training script's add_rolling_features was run
\* on, the scoring script's add_rolling_features completes too, returns a
\* row for every row with the same is_podium and the same seven derived
\* values, and both tables still have the driver_id and constructor_id
\* columns.
C18_SameFeaturesInBothScripts ==
    Returned =>
        LET scoring == predict_add_rolling_features(input)
        IN /\ scoring.raised = "none"
           /\ Len(scoring.df) = Len(out)
           /\ HasColumn(out, "driver_id") /\ HasColumn(out, "constructor_id")
           /\ HasColumn(scoring.df, "driver_id") /\ HasColumn(scoring.df, "constructor_id")
           /\ \A i \in 1..Len(out) :
                 Derived(RowAt(scoring.df, out[i].index)) = Derived(out[i])

\* ------------------------------------------------------------------ C20
\* the scoring script was started and found a model file and stored data
Scoring == args # Null /\ pc \notin {"seed", "trained", "model_not_found", "no_data"}

\* C20: a scoring run that found the model and data ends in one of two
\* ways.  Either the scorer was called, on exactly the rows of the target
\* (season, race_round) of a feature table that covers the target race
\* with a result row for every driver, as stored after the stubs were
\* ensured; or no row matched the target and the run was aborted before
\* the scorer.
C20_ScoresExactlyTargetRows ==
    Scoring =>
        LET t == args[1]
        IN /\ pc \in {"predicted", "target_not_found"}
           /\ t \in races /\ \A d \in DOMAIN drivers : HasResult(t, d)
           /\ input = fetch_all_up_to(races, race_results, t[1])
           /\ Len(out) = Len(input)
           /\ cur = TargetRows(out, t)
           /\ (pc = "predicted") <=> (cur # << >>)

Asked(path) == request' # request /\ request'[1].path = path

\* entry a stands before entry b in the standings order, or ties with it
Standing(a, b) ==
    \/ a.points > b.points
    \/ a.points = b.points /\ a.wins > b.wins
    \/ a.points = b.points /\ a.wins = b.wins /\ CodeRank(a.code) <= CodeRank(b.code)

\* C21: the answer to GET /stats/leaderboard with season S and limit L is
\* a 200 whose body carries season = S, count = the length of drivers, at
\* most L drivers, each with a result in a race of season S and with the
\* points and wins of those results, in the order points descending, wins
\* descending, code ascending.
C21_LeaderboardOrdered ==
    [][ Asked("/stats/leaderboard") =>
          /\ response'.raised = "none"
          /\ response'.status = 200
          /\ response'.body.season = request'[1].season
          /\ response'.body.count = Len(response'.body.drivers)
          /\ Len(response'.body.drivers) <= request'[1].limit
          /\ \A i \in 1..Len(response'.body.drivers) :
                LET e == response'.body.drivers[i]
                    S == SeasonResults(e.code, request'[1].season)
                IN /\ S # {}
                   /\ e.points = Coalesce(SumPoints(S), 0)
                   /\ e.wins = Wins(S)
                   /\ \A j \in (i + 1)..Len(response'.body.drivers) :
                         Standing(e, response'.body.drivers[j]) ]_vars

\* ------------------------------------------------------------------ C22
\* C22: for a driver parameter whose code has a driver row, the answer to
\* GET /stats/wins/races is a 200 with driver, season, wins_count and
\* races; wins_count is the number of races listed, the races listed are
\* exactly the races of the season in which the driver's position is 1, and
\* they come in ascending round order.
C22_WinsRacesComplete ==
    [][ (Asked("/stats/wins/races") /\ ensure_driver(upper(request'[1].driver))) =>
          /\ response'.raised = "none"
          /\ response'.status = 200
          /\ response'.body.driver = upper(request'[1].driver)
          /\ response'.body.season = request'[1].season
          /\ response'.body.wins_count = Len(response'.body.races)
          /\ { response'.body.races[i].race_id : i \in 1..Len(response'.body.races) }
                = { rr.race_id : rr \in { x \in race_results :
                      /\ x.race_id \in races /\ x.race_id[1] = request'[1].season
                      /\ CodeOf(x.driver_id) = upper(request'[1].driver)
                      /\ x.position = Some(1) } }
          /\ \A i \in 1..(Len(response'.body.races) - 1) :
                response'.body.races[i].round < response'.body.races[i + 1].round ]_vars

\* ------------------------------------------------------------------ C28
DriverPaths ==
    {"/stats/wins", "/stats/wins/races", "/stats/podiums", "/stats/points", "/stats/summary"}

\* C28: a request to one of the five driver statistics endpoints is
\* answered for the upper-cased driver code: with 404 and no statistics
\* when no driver row has that code, with a 200 for that code otherwise;
\* and serving it leaves every table as it was.
C28_UnknownDriverIs404 ==
    [][ (\E path \in DriverPaths : Asked(path)) =>
          /\ <<drivers', races', race_results'>> = <<drivers, races, race_results>>
          /\ response'.raised = "none"
          /\ IF ensure_driver(upper(request'[1].driver))
             THEN /\ response'.status = 200
                  /\ response'.body.driver = upper(request'[1].driver)
             ELSE /\ response'.status = 404
                  /\ DOMAIN response'.body = {"detail"} ]_vars

\* ------------------------------------------------------------------ C23
\* C23: in every seeding step, a result row that is stored before and after
\* the step is reported by the feature input query with the same
\* constructor_id before and after it.
C23_ConstructorStable ==
    [][ \A rr \in race_results :
          HasResult(rr.race_id, rr.driver_id)' =>
              BaseRow(rr).constructor_id' = BaseRow(rr).constructor_id ]_vars

\* ------------------------------------------------------------------ C27
\* C27: at the verification step of a round whose results were loaded,
\* every abbreviation that was processed has a result row for the race
\* joined to its driver, so missing is empty and the run does not take the
\* rollback-and-raise branch.
C27_NothingMissing ==
    verify # Null =>
        /\ verify[1].expected_abbrs \subseteq verify[1].db_abbrs
        /\ verify[1].missing = {}
        /\ verify[1].raised = "none"
        /\ \A d \in DOMAIN drivers :
              CodeOf(d) \in verify[1].expected_abbrs => HasResult(verify[1].race, d)

\* a round was verified in which HAM was processed and the race holds a row
\* of VER as well
C27_Witness ==
    /\ verify # Null
    /\ verify[1].expected_abbrs = {"HAM"}
    /\ verify[1].db_abbrs = {"VER", "HAM"}

\* ------------------------------------------------------------------ C26
ResultFields == {"position", "grid", "status", "points"}

\* C26: every step of upsert_race_result leaves at most one row per
\* (race_id, driver_id), and every row stored before the step is still
\* stored after it with each field explained by one call: a field the call
\* passed as None keeps its stored value, a field passed non-null holds the
\* passed value; so no non-null field becomes null.
C26_NoNullOverwrites ==
    [][ /\ \A a, b \in race_results' :
              (a.race_id = b.race_id /\ a.driver_id = b.driver_id) => a = b
        /\ \A rr \in race_results : \E x \in race_results' :
              /\ x.race_id = rr.race_id /\ x.driver_id = rr.driver_id
              /\ \A f \in ResultFields : ~IsNull(rr[f]) => ~IsNull(x[f])
              /\ \/ x = rr
                 \/ \E v \in fastf1[rr.race_id] : \A f \in ResultFields :
                       x[f] = IF IsNull(v[f]) THEN rr[f] ELSE v[f] ]_vars

\* a classified row was upserted with a retirement that passed None for
\* position, grid and points: they are kept, the status is the new one
C26_Witness ==
    \E rr \in race_results :
        rr.position = Some(1) /\ rr.points = Some(25) /\ rr.status = Some("DNF")

\* ------------------------------------------------------------------ C25
\* C25: a step of ensure_race_and_stubs for (season, round) leaves that
\* race stored, with exactly one result row per driver; every race and
\* every result row stored before the step is stored unchanged after it;
\* and running it again on the state it leaves changes nothing.
C25_StubsIdempotent ==
    [][ \A rc \in Targets : (args' # args /\ args' = Some(rc)) =>
          /\ rc \in races'
          /\ races \subseteq races'
          /\ race_results \subseteq race_results'
          /\ \A d \in DOMAIN drivers' :
                Cardinality({ rr \in race_results' :
                                rr.race_id = rc /\ rr.driver_id = d }) = 1
          /\ ensure_race(rc[1], rc[2])' = races'
          /\ ensure_stubs(rc[1], rc[2])' = race_results' ]_vars

\* stubs were ensured for a race that held a classified row of one driver
\* and none of the other
C25_Witness ==
    /\ args # Null
    /\ \E a, b \in race_results :
          /\ a.race_id = args[1] /\ b.race_id = args[1]
          /\ a.position = Some(1)
          /\ b.status = Null

\* ------------------------------------------------------------------ C24
\* the rows of df up to and including race t
UpTo(df, t) ==
    SelectSeq(df, LAMBDA r : r.season < t[1] \/ (r.season = t[1] /\ r.race_round <= t[2]))

\* the derived values of the rows of a, as computed on the whole of b
SameFeatures(a, b) ==
    /\ Len(a) <= Len(b)
    /\ \A i \in 1..Len(a) : Derived(RowAt(b, a[i].index)) = Derived(a[i])

\* C24: for every stored race t, the final feature values of the rows up
\* to t are the same whether add_rolling_features is run on the table that
\* ends at t or on the table that also holds the later races.
C24_LaterRowsChangeNothing ==
    Returned =>
        \A t \in races : SameFeatures(add_rolling_features(UpTo(input, t)), out)

====
